---- MODULE Spec2Model ----
(***************************************************************************)
(* Model of ofxstatement-paypal (src/ofxstatement/plugins/paypal.py): the  *)
(* PayPal CSV parser.  A text is a sequence of one-character strings, so   *)
(* that strip(), lower(), replace(), the substring test and the number and *)
(* date parsers are computed character by character as the code does.      *)
(* Fields that the code only copies or compares whole (Name, Time,         *)
(* Currency, ...) are plain strings.                                       *)
(***************************************************************************)
EXTENDS Integers, Sequences, FiniteSets, TLC

\* ------------------------------------------------------------ bounds
\* Longest input (data rows after the header) of the row specification.
MaxRows == 3
\* Longest input of the header specification.
MaxHeaderRows == 1
\* Longest input of the matching specification.
MaxMergeRows == 4

\* ------------------------------------------------------------ text helpers
Digits == <<"0", "1", "2", "3", "4", "5", "6", "7", "8", "9">>
Upper == <<"A", "B", "C", "D", "E", "F", "G", "H", "I", "J", "K", "L", "M",
           "N", "O", "P", "Q", "R", "S", "T", "U", "V", "W", "X", "Y", "Z">>
Lower == <<"a", "b", "c", "d", "e", "f", "g", "h", "i", "j", "k", "l", "m",
           "n", "o", "p", "q", "r", "s", "t", "u", "v", "w", "x", "y", "z">>
Whitespace == {" ", "\t"}

IsDigit(c) == \E i \in 1..10 : Digits[i] = c
DigitVal(c) == (CHOOSE i \in 1..10 : Digits[i] = c) - 1

\* str.lower() of one character and of a text
LowerChar(c) ==
  IF \E i \in 1..26 : Upper[i] = c
  THEN Lower[CHOOSE i \in 1..26 : Upper[i] = c]
  ELSE c
StrLower(s) == [i \in 1..Len(s) |-> LowerChar(s[i])]

\* str.strip(): drop the leading and the trailing whitespace
RECURSIVE LStrip(_)
LStrip(s) ==
  IF s # <<>> /\ Head(s) \in Whitespace THEN LStrip(Tail(s)) ELSE s
RECURSIVE RStrip(_)
RStrip(s) ==
  IF s # <<>> /\ s[Len(s)] \in Whitespace
  THEN RStrip(SubSeq(s, 1, Len(s) - 1))
  ELSE s
Strip(s) == RStrip(LStrip(s))

\* str.replace(old, new) for a one-character old; new is a text
RECURSIVE Replace(_, _, _)
Replace(s, old, new) ==
  IF s = <<>> THEN <<>>
  ELSE (IF Head(s) = old THEN new ELSE <<Head(s)>>) \o Replace(Tail(s), old, new)

\* the `sub in s` test of Python strings
Contains(s, sub) ==
  \E i \in 0..(Len(s) - Len(sub)) : SubSeq(s, i + 1, i + Len(sub)) = sub

\* str.split(sep) for a one-character separator
RECURSIVE Split(_, _)
Split(s, sep) ==
  IF \A i \in 1..Len(s) : s[i] # sep THEN <<s>>
  ELSE LET k == CHOOSE i \in 1..Len(s) :
                   s[i] = sep /\ \A j \in 1..(i - 1) : s[j] # sep
       IN <<SubSeq(s, 1, k - 1)>> \o Split(SubSeq(s, k + 1, Len(s)), sep)

\* value of a text of digits
RECURSIVE ToNat(_)
ToNat(s) ==
  IF s = <<>> THEN 0
  ELSE 10 * ToNat(SubSeq(s, 1, Len(s) - 1)) + DigitVal(s[Len(s)])

AllDigits(s) == s # <<>> /\ \A i \in 1..Len(s) : IsDigit(s[i])

\* list.index(x): position of the first element equal to x
Index(list, x) == CHOOSE i \in 1..Len(list) :
                     list[i] = x /\ \A j \in 1..(i - 1) : list[j] # x

\* ------------------------------------------------------------ column names
DATE == <<"D", "a", "t", "e">>
TIME == <<"T", "i", "m", "e">>
TIMEZONE == <<"T", "i", "m", "e", "Z", "o", "n", "e">>
NAME == <<"N", "a", "m", "e">>
TYPE == <<"T", "y", "p", "e">>
STATUS == <<"S", "t", "a", "t", "u", "s">>
CURRENCY == <<"C", "u", "r", "r", "e", "n", "c", "y">>
AMOUNT == <<"A", "m", "o", "u", "n", "t">>
RECEIPT_ID == <<"R", "e", "c", "e", "i", "p", "t", " ", "I", "D">>
BALANCE == <<"B", "a", "l", "a", "n", "c", "e">>

valid_header ==
  <<DATE, TIME, TIMEZONE, NAME, TYPE, STATUS, CURRENCY, AMOUNT, RECEIPT_ID, BALANCE>>


\* ------------------------------------------------------------ locale library
\* A locale name is the sequence of its parts: "C" is <<"C">>, "de_DE.UTF-8"
\* is <<"de_DE", ".", "UTF-8">>.  None as a locale argument is the empty name.
None == "None"
NoLocale == <<>>
C_LOCALE == <<"C">>
DE_LOCALE == <<"de_DE", ".", "UTF-8">>
US_LOCALE == <<"en_US", ".", "UTF-8">>
XX_LOCALE == <<"xx_XX", ".", "UTF-8">>

\* the locales the C library can switch to; any other name makes
\* locale.setlocale raise locale.Error
InstalledLocales == {C_LOCALE, DE_LOCALE, US_LOCALE}

\* locale.localeconv() under the numeric locale cur
localeconv(cur) ==
  CASE cur[1] = "de_DE" -> [decimal_point |-> ",", thousands_sep |-> "."]
    [] cur[1] = "en_US" -> [decimal_point |-> ".", thousands_sep |-> ","]
    [] OTHER -> [decimal_point |-> ".", thousands_sep |-> ""]

\* locale.getlocale(category): the current name parsed into (language, encoding)
getlocale(cur) ==
  IF \E i \in 1..Len(cur) : cur[i] = "."
  THEN <<cur[1], cur[3]>>
  ELSE <<None, None>>

\* locale._build_localename: the name of a (language, encoding) pair
build_localename(pair) ==
  LET language == IF pair[1] = None THEN "C" ELSE pair[1]
  IN IF pair[2] = None THEN <<language>> ELSE <<language, ".", pair[2]>>

\* locale.setlocale(category, loc) for a name: [raised, cur].  loc = None only
\* queries the setting; an unknown name raises and changes nothing.
setlocale(cur, loc) ==
  IF loc = NoLocale THEN [raised |-> FALSE, cur |-> cur]
  ELSE IF loc \in InstalledLocales THEN [raised |-> FALSE, cur |-> loc]
  ELSE [raised |-> TRUE, cur |-> cur]

\* locale.delocalize: drop the grouping, then turn the decimal point into a dot
delocalize(string, cur) ==
  LET conv == localeconv(cur)
      ungrouped == IF conv.thousands_sep # ""
                   THEN Replace(string, conv.thousands_sep, <<>>)
                   ELSE string
  IN Replace(ungrouped, conv.decimal_point, <<".">>)

\* float(s) for plain decimal literals: [ok, value]; the value is counted in
\* hundredths (the amounts of the export have two decimals)
PyFloat(s) ==
  LET signed == s # <<>> /\ Head(s) \in {"-", "+"}
      body == IF signed THEN Tail(s) ELSE s
      parts == Split(body, ".")
      int_part == parts[1]
      frac_part == IF Len(parts) = 2 THEN parts[2] ELSE <<>>
      ok == /\ Len(parts) <= 2
            /\ \A i \in 1..Len(int_part) : IsDigit(int_part[i])
            /\ \A i \in 1..Len(frac_part) : IsDigit(frac_part[i])
            /\ Len(int_part) + Len(frac_part) >= 1
      cents == ToNat(SubSeq(frac_part \o <<"0", "0">>, 1, 2))
      magnitude == 100 * ToNat(int_part) + cents
  IN IF ~ok THEN [ok |-> FALSE, value |-> 0]
     ELSE [ok |-> TRUE,
           value |-> IF signed /\ Head(s) = "-" THEN 0 - magnitude ELSE magnitude]

\* locale.atof(string) under the numeric locale cur
locale_atof(string, cur) == PyFloat(delocalize(string, cur))

\* scoped_setlocale, entry (lines 46-48): remember the parsed current
\* setting, then switch to loc: [orig, raised, cur]
scoped_enter(cur, loc) ==
  LET entered == setlocale(cur, loc)
  IN [orig |-> getlocale(cur), raised |-> entered.raised, cur |-> entered.cur]

\* a block exit that restores nothing
scoped_exit_leak(cur, orig) == cur

\* scoped_setlocale, the finally clause (lines 49-50): switch back to the
\* setting remembered on entry; it runs on every way out of the block
scoped_exit(cur, orig) == setlocale(cur, build_localename(orig)).cur

\* atof(string, loc) starting from the process-wide numeric locale cur:
\* [error, value, numeric_locale], with the locale the call leaves behind
atof(string, loc, cur) ==
  LET scope == scoped_enter(cur, loc)
      parsed == locale_atof(string, scope.cur)
  IN [error |-> IF scope.raised THEN "LocaleError"
                ELSE IF ~parsed.ok THEN "NumberParseError"
                ELSE "none",
      value |-> IF scope.raised THEN 0 ELSE parsed.value,
      numeric_locale |-> scoped_exit(scope.cur, scope.orig)]

\* ------------------------------------------------------------ dates
\* the default date_format, '%d/%m/%Y', as directives around a separator
date_format == <<"%d", "/", "%m", "/", "%Y">>

IsLeap(y) == (y % 4 = 0 /\ y % 100 # 0) \/ y % 400 = 0
DaysInMonth(y, m) ==
  IF m = 2 THEN (IF IsLeap(y) THEN 29 ELSE 28)
  ELSE IF m \in {4, 6, 9, 11} THEN 30 ELSE 31

\* datetime.strptime(string, format) for formats of three directives among
\* %d, %m, %Y around one separator: [ok, value] with value = <<year, month, day>>
strptime(string, format) ==
  LET parts == Split(string, format[2])
      directives == <<format[1], format[3], format[5]>>
      part(dir) == parts[Index(directives, dir)]
      shaped == /\ Len(parts) = 3
                /\ \A i \in 1..3 : AllDigits(parts[i])
                /\ Len(part("%d")) \in 1..2
                /\ Len(part("%m")) \in 1..2
                /\ Len(part("%Y")) = 4
      y == ToNat(part("%Y"))
      m == ToNat(part("%m"))
      d == ToNat(part("%d"))
  IN IF shaped /\ y >= 1 /\ m \in 1..12 /\ d \in 1..DaysInMonth(y, m)
     THEN [ok |-> TRUE, value |-> <<y, m, d>>]
     ELSE [ok |-> FALSE, value |-> <<>>]

\* ------------------------------------------------------------ inputs
D1 == <<"0", "1", "/", "0", "2", "/", "2", "0", "2", "0">>
D2 == <<"0", "2", "/", "0", "2", "/", "2", "0", "2", "0">>
DBad == <<"3", "1", "/", "0", "2", "/", "2", "0", "2", "0">>
T1 == "10:00:00"
T2 == "11:00:00"
TPayment == <<"P", "a", "y", "m", "e", "n", "t">>
TConversion == <<"C", "u", "r", "r", "e", "n", "c", "y", " ", "C", "o", "n", "v", "e", "r", "s", "i", "o", "n">>
TGeneral == <<"G", "e", "n", "e", "r", "a", "l", " ", "c", "u", "r", "r", "e", "n", "c", "y", " ", "c", "o", "n", "v", "e", "r", "s", "i", "o", "n">>
APlain == <<"-", "1", "2", ".", "3", "4">>
AGrouped == <<"1", " ", "2", "3", "4", ",", "5", "6">>
AJunk == <<"a", "b", "c">>

\* a CSV data row in the column order of the export
Row(date, time, name, type, cur, amount) ==
  <<date, time, "PST", name, type, "Completed", cur, amount, "R1", "100.00">>

UsdPayment == Row(D1, T1, "Jane Doe", TPayment, "USD", APlain)
UsdConversion == Row(D1, T1, "PayPal", TConversion, "USD", APlain)
EurJane == Row(D1, T1, "Jane Doe", TPayment, "EUR", AJunk)
EurShop == Row(D1, T1, "Shop", TPayment, "EUR", APlain)
EurConversion == Row(D1, T1, "Bank", TConversion, "EUR", APlain)
UsdGeneral == Row(D2, T1, "PayPal", TGeneral, "USD", AGrouped)
UsdJunk == Row(D1, T2, "Jane Doe", TPayment, "USD", AJunk)
EurLater == Row(D1, T2, "Shop", TPayment, "EUR", APlain)
UsdBadDate == Row(DBad, T2, "Jane Doe", TPayment, "USD", APlain)

RowPool ==
  {UsdPayment, UsdConversion, EurJane, EurShop, EurConversion, UsdGeneral,
   UsdJunk, EurLater, UsdBadDate}

\* the rows around one (Date, Time), for the matching specification
MergePool == {UsdPayment, UsdConversion, EurJane, EurShop, EurLater}

\* first rows of the file as csv.reader yields them (before strip)
PaddedHeader ==
  [i \in 1..Len(valid_header) |->
     IF i = 1 THEN <<" ">> \o valid_header[i]
     ELSE IF i = Len(valid_header) THEN valid_header[i] \o <<" ", "\t">>
     ELSE valid_header[i]]
LowerHeader == [i \in 1..Len(valid_header) |-> StrLower(valid_header[i])]
SwappedHeader ==
  [i \in 1..Len(valid_header) |->
     IF i = 1 THEN valid_header[2] ELSE IF i = 2 THEN valid_header[1]
     ELSE valid_header[i]]
ShortHeader == SubSeq(valid_header, 1, Len(valid_header) - 1)
LongHeader == valid_header \o <<NAME>>
BlankHeader == <<>>

HeaderPool ==
  {valid_header, PaddedHeader, LowerHeader, SwappedHeader, ShortHeader,
   LongHeader, BlankHeader}

RowSeqs(pool, n) == UNION {[1..k -> pool] : k \in 0..n}

LocaleSettings == {NoLocale, DE_LOCALE, XX_LOCALE}

\* LC_NUMERIC of the process that loads the plugin
ProcessLocales == {C_LOCALE, US_LOCALE}


\* ------------------------------------------------------------ parser
VARIABLES
  lines,            \* self.lines: the rows of the CSV file, header first
  currency,         \* self.currency
  locale,           \* self.locale
  merge_payee,      \* self.merge_payee
  other_currency,   \* self.other_currency
  this_currency,    \* the list split_records iterates over
  cur_record,       \* records handed to parse_record so far
  statement_lines,  \* self.statement.lines
  error,            \* the exception that ended the run, or "none"
  pc,               \* idle, constructed, iterating, done, failed
  numeric_locale,   \* the process-wide LC_NUMERIC setting
  first_pc,         \* how the run before this one ended, or "none"
  first_error,      \* its exception
  first_lines       \* its statement lines

vars == <<lines, currency, locale, merge_payee, other_currency, this_currency,
          cur_record, statement_lines, error, pc, numeric_locale,
          first_pc, first_error, first_lines>>

CONVERSION_MARK == <<"c", "u", "r", "r", "e", "n", "c", "y", " ", "c", "o", "n", "v", "e", "r", "s", "i", "o", "n">>

\* the header property: the first row of the reader, each field stripped
header(ls) == [i \in 1..Len(Head(ls)) |-> Strip(Head(ls)[i])]

\* validate comparing the names without regard to case
validate_nocase(ls) ==
  LET fold(h) == [i \in 1..Len(h) |-> StrLower(h[i])]
  IN ~(fold(valid_header) # fold(header(ls)))

\* validate: TRUE when no exception is raised
validate(ls) == ~(valid_header # header(ls))

is_not_currency_conversion(row) ==
  ~Contains(StrLower(row[Index(valid_header, TYPE)]), CONVERSION_MARK)

\* the loop keeping every foreign row, currency conversions included
RECURSIVE rows_loop_all(_, _, _, _)
rows_loop_all(rs, cur, this, other) ==
  IF rs = <<>> THEN [this_currency |-> this, other_currency |-> other]
  ELSE LET r == Head(rs)
       IN IF r[Index(valid_header, CURRENCY)] = cur
          THEN rows_loop_all(Tail(rs), cur, Append(this, r), other)
          ELSE rows_loop_all(Tail(rs), cur, this, Append(other, r))

\* the loop of the rows property in merge mode
RECURSIVE rows_loop(_, _, _, _)
rows_loop(rs, cur, this, other) ==
  IF rs = <<>> THEN [this_currency |-> this, other_currency |-> other]
  ELSE LET r == Head(rs)
       IN IF r[Index(valid_header, CURRENCY)] = cur
          THEN rows_loop(Tail(rs), cur, Append(this, r), other)
          ELSE IF is_not_currency_conversion(r)
          THEN rows_loop(Tail(rs), cur, this, Append(other, r))
          ELSE rows_loop(Tail(rs), cur, this, other)

\* the rows property collecting foreign rows only up to the first row in the
\* target currency, as a generator yielding while it reads would
rows_streaming(ls, cur, merge, other) ==
  LET rs == Tail(ls)
      keep(r) == r[Index(valid_header, CURRENCY)] = cur
      stop == IF \E i \in 1..Len(rs) : keep(rs[i])
              THEN CHOOSE i \in 1..Len(rs) :
                     keep(rs[i]) /\ \A j \in 1..(i - 1) : ~keep(rs[j])
              ELSE Len(rs)
  IN IF merge = FALSE
     THEN [this_currency |-> SelectSeq(rs, keep), other_currency |-> other]
     ELSE [this_currency |-> SelectSeq(rs, keep),
           other_currency |-> rows_loop(SubSeq(rs, 1, stop), cur, <<>>, other).other_currency]

\* the rows property filtering nothing when merge is off
rows_unfiltered(ls, cur, merge, other) ==
  IF merge = FALSE
  THEN [this_currency |-> Tail(ls), other_currency |-> other]
  ELSE rows_loop(Tail(ls), cur, <<>>, other)

\* the rows property: the list it returns and self.other_currency afterwards
rows(ls, cur, merge, other) ==
  LET rs == Tail(ls)
      keep(r) == r[Index(valid_header, CURRENCY)] = cur
  IN IF merge = FALSE
     THEN [this_currency |-> SelectSeq(rs, keep), other_currency |-> other]
     ELSE rows_loop(rs, cur, <<>>, other)

\* the test comparing the Date alone
same_date(oc_row, row) ==
  oc_row[Index(valid_header, DATE)] = row[Index(valid_header, DATE)]

\* the test of get_matching_transaction: same Date and same Time
same_date_time(oc_row, row) ==
  /\ oc_row[Index(valid_header, DATE)] = row[Index(valid_header, DATE)]
  /\ oc_row[Index(valid_header, TIME)] = row[Index(valid_header, TIME)]

\* a removal that leaves the list as it is
list_keep(list, x) == list

\* list.remove(x): the list without its first element equal to x
list_remove(list, x) ==
  LET at == Index(list, x)
  IN SubSeq(list, 1, at - 1) \o SubSeq(list, at + 1, Len(list))

\* get_matching_transaction: [found, matching, other_currency]; found is
\* FALSE when the function returns None
get_matching_transaction(other, row) ==
  IF \E i \in 1..Len(other) : same_date_time(other[i], row)
  THEN LET i == CHOOSE k \in 1..Len(other) :
                  /\ same_date_time(other[k], row)
                  /\ \A j \in 1..(k - 1) : ~same_date_time(other[j], row)
           oc_row == other[i]
       IN [found |-> TRUE, matching |-> oc_row,
           other_currency |-> list_remove(other, oc_row)]
  ELSE [found |-> FALSE, matching |-> row, other_currency |-> other]

\* generate_transaction_id of the statement library: the SHA-1 digest of the
\* date, memo and amount the line carries when it is called, kept as the
\* tuple of them (no two different tuples share a digest)
generate_transaction_id(stmt_line) ==
  <<stmt_line.date, stmt_line.memo, stmt_line.amount>>

NoLine == [date |-> <<>>, memo |-> <<>>, amount |-> 0, payee |-> "", id |-> <<>>]

\* the merge step attempted for every row in merge mode
needs_lookup_always(merge, row) == merge

\* the condition of the merge step of parse_record
needs_lookup(merge, row) == merge /\ ~is_not_currency_conversion(row)

\* the merge step taking the payee alone
merge_fields_payee_only(stmt_line, matching) ==
  [stmt_line EXCEPT !.payee = matching[Index(valid_header, NAME)]]

\* the merge step: payee and memo taken from the matching row
merge_fields(stmt_line, matching) ==
  [stmt_line EXCEPT !.payee = matching[Index(valid_header, NAME)],
                    !.memo = matching[Index(valid_header, TYPE)]]

\* parse_record: [error, line, other_currency, numeric_locale]
parse_record(row, loc, merge, other, cur) ==
  LET date == strptime(row[Index(valid_header, DATE)], date_format)
      amount == atof(Replace(row[Index(valid_header, AMOUNT)], " ", <<>>), loc, cur)
      base == [date |-> date.value,
               memo |-> row[Index(valid_header, TYPE)],
               amount |-> amount.value,
               payee |-> row[Index(valid_header, NAME)]]
      with_id == [date |-> base.date, memo |-> base.memo, amount |-> base.amount,
                  payee |-> base.payee, id |-> generate_transaction_id(base)]
      m == get_matching_transaction(other, row)
  IN IF ~date.ok
     THEN [error |-> "DateParseError", line |-> NoLine,
           other_currency |-> other, numeric_locale |-> cur]
     ELSE IF amount.error # "none"
     THEN [error |-> amount.error, line |-> NoLine,
           other_currency |-> other, numeric_locale |-> amount.numeric_locale]
     ELSE IF needs_lookup(merge, row)
     THEN [error |-> "none",
           line |-> IF m.found THEN merge_fields(with_id, m.matching) ELSE with_id,
           other_currency |-> m.other_currency,
           numeric_locale |-> amount.numeric_locale]
     ELSE [error |-> "none", line |-> with_id,
           other_currency |-> other, numeric_locale |-> amount.numeric_locale]

\* ------------------------------------------------------------ actions
Finished == pc \in {"done", "failed"}

\* The plugin builds a parser for the file (get_parser, __init__): first with
\* the default merge_payee, then, once that run is over, with merge_payee set.
GetParser ==
  /\ \/ /\ pc = "idle"
        /\ merge_payee' = FALSE
        /\ UNCHANGED <<first_pc, first_error, first_lines>>
     \/ /\ Finished
        /\ merge_payee = FALSE
        /\ merge_payee' = TRUE
        /\ first_pc' = pc
        /\ first_error' = error
        /\ first_lines' = statement_lines
  /\ other_currency' = <<>>
  /\ this_currency' = <<>>
  /\ cur_record' = 0
  /\ statement_lines' = <<>>
  /\ IF lines = <<>>
     THEN pc' = "failed" /\ error' = "IndexError"
     ELSE IF ~validate(lines)
     THEN pc' = "failed" /\ error' = "SchemaMismatch"
     ELSE pc' = "constructed" /\ error' = "none"
  /\ UNCHANGED <<lines, currency, locale, numeric_locale>>

\* First step of the split_records generator: self.rows is evaluated whole.
SplitRecords ==
  /\ pc = "constructed"
  /\ LET r == rows(lines, currency, merge_payee, other_currency)
     IN /\ this_currency' = r.this_currency
        /\ other_currency' = r.other_currency
        /\ pc' = IF r.this_currency = <<>> THEN "done" ELSE "iterating"
  /\ UNCHANGED <<lines, currency, locale, merge_payee, cur_record,
                 statement_lines, error, numeric_locale,
                 first_pc, first_error, first_lines>>

\* The generator yields the next row and parse_record turns it into a line;
\* an exception ends the run.
ParseRecord ==
  /\ pc = "iterating"
  /\ LET row == this_currency[cur_record + 1]
         res == parse_record(row, locale, merge_payee, other_currency, numeric_locale)
     IN /\ cur_record' = cur_record + 1
        /\ other_currency' = res.other_currency
        /\ numeric_locale' = res.numeric_locale
        /\ IF res.error # "none"
           THEN /\ pc' = "failed"
                /\ error' = res.error
                /\ statement_lines' = statement_lines
           ELSE /\ pc' = IF cur_record + 1 = Len(this_currency)
                         THEN "done" ELSE "iterating"
                /\ error' = error
                /\ statement_lines' = Append(statement_lines, res.line)
  /\ UNCHANGED <<lines, currency, locale, merge_payee, this_currency,
                 first_pc, first_error, first_lines>>

Next == GetParser \/ SplitRecords \/ ParseRecord

InitParser ==
  /\ currency = "USD"
  /\ locale \in LocaleSettings
  /\ merge_payee = FALSE
  /\ other_currency = <<>>
  /\ this_currency = <<>>
  /\ cur_record = 0
  /\ statement_lines = <<>>
  /\ error = "none"
  /\ pc = "idle"
  /\ numeric_locale \in ProcessLocales
  /\ first_pc = "none"
  /\ first_error = "none"
  /\ first_lines = <<>>

\* files with the expected header
Init ==
  /\ lines \in {<<valid_header>> \o rs : rs \in RowSeqs(RowPool, MaxRows)}
  /\ InitParser

\* files with any first row, or none
InitHeader ==
  /\ lines \in {<<>>} \cup {<<h>> \o rs : h \in HeaderPool, rs \in RowSeqs(RowPool, MaxHeaderRows)}
  /\ InitParser

\* files with the expected header and rows around one (Date, Time)
InitMerge ==
  /\ lines \in {<<valid_header>> \o rs : rs \in RowSeqs(MergePool, MaxMergeRows)}
  /\ InitParser

Spec == Init /\ [][Next]_vars
SpecMerge == InitMerge /\ [][Next]_vars
SpecHeader == InitHeader /\ [][Next]_vars


\* ------------------------------------------------------------ properties
\* The properties name the columns by their position in the export.
DataRows == Tail(lines)
DateOf(r) == r[1]
TimeOf(r) == r[2]
NameOf(r) == r[4]
TypeOf(r) == r[5]
CurrencyOf(r) == r[7]
ConversionTypes == {TConversion, TGeneral}
IsConversion(r) == TypeOf(r) \in ConversionTypes
SameKey(r, q) == DateOf(r) = DateOf(q) /\ TimeOf(r) = TimeOf(q)

\* the rows property has run
RowsTaken == pc \in {"iterating", "done"} \/ (pc = "failed" /\ cur_record > 0)

\* the n-th smallest element of a set of positions
Nth(S, n) == CHOOSE i \in S : Cardinality({k \in S : k <= i}) = n

\* positions in the file of the rows in the target currency
TargetPositions == {i \in 1..Len(DataRows) : CurrencyOf(DataRows[i]) = currency}
\* positions of the foreign rows that are no currency conversions
PendingPositions ==
  {i \in 1..Len(DataRows) :
     CurrencyOf(DataRows[i]) # currency /\ ~IsConversion(DataRows[i])}
\* ... among them those sharing Date and Time with row r
PendingFor(r) == {i \in PendingPositions : SameKey(DataRows[i], r)}

\* the first row, each field stripped, equals the expected columns one by one
HeaderMatches ==
  /\ lines # <<>>
  /\ Len(lines[1]) = 10
  /\ \A i \in 1..10 : Strip(lines[1][i]) = valid_header[i]
\* C1: a first row that, once each field is stripped, differs from the ten
\* expected columns (in length, order or case) makes the construction fail
\* with the header error before any row is filtered or transformed; an equal
\* first row raises no header error.
C1_HeaderValidated ==
  pc # "idle" =>
    /\ (lines # <<>> /\ ~HeaderMatches) =>
         /\ pc = "failed"
         /\ error = "SchemaMismatch"
         /\ this_currency = <<>>
         /\ other_currency = <<>>
         /\ cur_record = 0
         /\ statement_lines = <<>>
    /\ HeaderMatches => error \notin {"SchemaMismatch", "IndexError"}
C1_Witness ==
  /\ pc = "failed"
  /\ error = "SchemaMismatch"
  /\ Len(lines) > 1
  /\ lines[1] = LowerHeader

\* C2: with merge disabled the rows handed to parse_record are exactly the
\* data rows in the target currency, one per such row and in file order, and
\* every statement line comes from the row of the same rank.
C2_DefaultKeepsTargetRows ==
  (merge_payee = FALSE /\ RowsTaken) =>
    /\ Len(this_currency) = Cardinality(TargetPositions)
    /\ \A j \in 1..Len(this_currency) :
         this_currency[j] = DataRows[Nth(TargetPositions, j)]
    /\ other_currency = <<>>
    /\ Len(statement_lines) <= cur_record
    /\ cur_record <= Len(this_currency)
    /\ \A j \in 1..Len(statement_lines) :
         LET r == DataRows[Nth(TargetPositions, j)]
         IN /\ CurrencyOf(r) = currency
            /\ statement_lines[j].payee = NameOf(r)
            /\ statement_lines[j].memo = TypeOf(r)
C2_Witness ==
  /\ merge_payee = FALSE
  /\ pc = "done"
  /\ Len(statement_lines) = 2
  /\ Len(DataRows) = 3
  /\ CurrencyOf(DataRows[2]) # currency


\* the row parse_record is about to take, and the line it has just appended
CurrentRow == this_currency[cur_record + 1]
LineAdded == Len(statement_lines') = Len(statement_lines) + 1
NewLine == statement_lines'[Len(statement_lines')]
HasPending(r) == \E i \in 1..Len(other_currency) : SameKey(other_currency[i], r)

\* C3: in merge mode a currency-conversion row in the target currency that
\* has a pending foreign row of the same Date and Time emits a line whose
\* payee and memo are that foreign row's Name and Type, not its own, and the
\* foreign row leaves the pending list.
C3_ConversionAdoptsForeign ==
  [][(/\ pc = "iterating"
      /\ merge_payee
      /\ IsConversion(CurrentRow)
      /\ HasPending(CurrentRow)
      /\ LineAdded)
     => \E i \in 1..Len(other_currency) :
          /\ SameKey(other_currency[i], CurrentRow)
          /\ CurrencyOf(other_currency[i]) # currency
          /\ NewLine.payee = NameOf(other_currency[i])
          /\ NewLine.memo = TypeOf(other_currency[i])
          /\ NewLine.memo # TypeOf(CurrentRow)
          /\ Len(other_currency') = Len(other_currency) - 1]_vars
C3_Witness ==
  /\ merge_payee
  /\ Len(statement_lines) >= 1
  /\ IsConversion(this_currency[1])
  /\ statement_lines[1].payee = "Shop"
  /\ statement_lines[1].payee # NameOf(this_currency[1])
  /\ statement_lines[1].memo = TPayment

\* the step of a conversion row that finds nothing pending
C4_UnmatchedStep ==
  (/\ pc = "iterating"
   /\ merge_payee
   /\ IsConversion(CurrentRow)
   /\ ~HasPending(CurrentRow)
   /\ LineAdded)
  => /\ NewLine.payee = NameOf(CurrentRow)
     /\ NewLine.memo = TypeOf(CurrentRow)
     /\ other_currency' = other_currency
\* what the foreign rows leave behind
C4_ForeignSilent ==
  (merge_payee /\ RowsTaken) =>
    /\ Len(statement_lines) <= Cardinality(TargetPositions)
    /\ pc = "done" =>
         /\ error = "none"
         /\ Len(statement_lines) = Cardinality(TargetPositions)
    /\ pc = "failed" =>
         /\ CurrencyOf(this_currency[cur_record]) = currency
         /\ this_currency[cur_record] = DataRows[Nth(TargetPositions, cur_record)]
\* C4: in merge mode a currency-conversion row in the target currency with
\* no pending foreign row of the same Date and Time emits a line with its own
\* Name and Type and leaves the pending list alone; a foreign row that is
\* never matched gives no line and no error: a run that ends normally has one
\* line per row in the target currency, and a run that fails fails on a row
\* in the target currency.
C4_UnmatchedKeepOwn == [][C4_UnmatchedStep]_vars /\ []C4_ForeignSilent
C4_Witness ==
  /\ merge_payee
  /\ pc = "done"
  /\ EurJane \in {other_currency[i] : i \in 1..Len(other_currency)}
  /\ \E j \in 1..Len(statement_lines) :
       /\ IsConversion(this_currency[j])
       /\ statement_lines[j].payee = NameOf(this_currency[j])
       /\ statement_lines[j].memo = TypeOf(this_currency[j])

\* the input of C5: two data rows of one Date and Time, a EUR row and a USD
\* row, both of Type "Currency Conversion", the target currency being USD
C5_Eur == CHOOSE i \in 1..2 : CurrencyOf(DataRows[i]) = "EUR"
C5_Scenario ==
  /\ currency = "USD"
  /\ Len(DataRows) = 2
  /\ {CurrencyOf(DataRows[1]), CurrencyOf(DataRows[2])} = {"EUR", "USD"}
  /\ TypeOf(DataRows[1]) = TConversion
  /\ TypeOf(DataRows[2]) = TConversion
  /\ SameKey(DataRows[1], DataRows[2])

\* C5 as stated: on that input, merge enabled, the line of the USD row has
\* the EUR row's Name as payee and the EUR row's Type as memo.
C5_AdoptsEurConversion ==
  (merge_payee /\ pc = "done" /\ C5_Scenario) =>
    /\ Len(statement_lines) = 1
    /\ statement_lines[1].payee = NameOf(DataRows[C5_Eur])
    /\ statement_lines[1].memo = TypeOf(DataRows[C5_Eur])

\* C5 amended: on that input, merge enabled, the EUR row is never pending
\* (its Type contains "currency conversion") and the line of the USD row
\* keeps the USD row's own Name as payee and own Type as memo.
C5_KeepsOwnName ==
  (merge_payee /\ RowsTaken /\ C5_Scenario) =>
    /\ other_currency = <<>>
    /\ pc = "done" =>
         /\ Len(statement_lines) = 1
         /\ statement_lines[1].payee = NameOf(DataRows[3 - C5_Eur])
         /\ statement_lines[1].memo = TypeOf(DataRows[3 - C5_Eur])
C5_Witness ==
  /\ merge_payee
  /\ pc = "done"
  /\ C5_Scenario
  /\ Len(statement_lines) = 1
  /\ NameOf(DataRows[1]) # NameOf(DataRows[2])


SameFields(a, b) ==
  /\ a.date = b.date
  /\ a.memo = b.memo
  /\ a.amount = b.amount
  /\ a.payee = b.payee
\* C6: two emitted lines with the same date, memo, amount and payee have the
\* same id.
C6_IdFromEmittedFields ==
  \A i, j \in 1..Len(statement_lines) :
    SameFields(statement_lines[i], statement_lines[j])
      => statement_lines[i].id = statement_lines[j].id

\* C7: a call of atof leaves the process-wide numeric locale as it found it,
\* whether the parse succeeds, the number is malformed or the requested
\* locale cannot be set.
C7_LocaleRestored == [][numeric_locale' = numeric_locale]_vars
C7_Witness ==
  /\ pc = "failed"
  /\ error = "NumberParseError"
  /\ locale = DE_LOCALE
  /\ numeric_locale = US_LOCALE
  /\ Len(statement_lines) >= 1

\* rank of the j-th row handed to parse_record among the conversion rows of
\* its Date and Time handed over so far
ConversionRank(j) ==
  Cardinality({k \in 1..j : /\ IsConversion(this_currency[k])
                            /\ SameKey(this_currency[k], this_currency[j])})
\* conversion lines of the Date and Time of r emitted so far
ConversionsDone(r) ==
  Cardinality({k \in 1..Len(statement_lines) :
                 IsConversion(this_currency[k]) /\ SameKey(this_currency[k], r)})
\* rank of the pending row at file position p among those of its Date and Time
PendingRank(p) == Cardinality({q \in PendingFor(DataRows[p]) : q <= p})
\* file positions of the pending rows no conversion row has taken yet
Unconsumed == {p \in PendingPositions : PendingRank(p) > ConversionsDone(DataRows[p])}

\* C8: in merge mode the i-th conversion row of a (Date, Time) adopts the
\* i-th pending foreign row of that (Date, Time) in file order when there is
\* one and keeps its own Name and Type otherwise; every pending row is taken
\* at most once, and what stays pending is the rest, in file order.
C8_FirstFoundMatching ==
  (merge_payee /\ RowsTaken) =>
    /\ \A j \in 1..Len(statement_lines) :
         LET r == this_currency[j]
             i == ConversionRank(j)
             adopted == DataRows[Nth(PendingFor(r), i)]
         IN IF IsConversion(r) /\ i <= Cardinality(PendingFor(r))
            THEN /\ statement_lines[j].payee = NameOf(adopted)
                 /\ statement_lines[j].memo = TypeOf(adopted)
            ELSE /\ statement_lines[j].payee = NameOf(r)
                 /\ statement_lines[j].memo = TypeOf(r)
    /\ Len(other_currency) = Cardinality(Unconsumed)
    /\ \A n \in 1..Len(other_currency) :
         other_currency[n] = DataRows[Nth(Unconsumed, n)]
C8_Witness ==
  /\ merge_payee
  /\ pc = "done"
  /\ Len(statement_lines) = 2
  /\ IsConversion(this_currency[1])
  /\ IsConversion(this_currency[2])
  /\ statement_lines[1].payee = "Shop"
  /\ statement_lines[2].payee = "Jane Doe"
  /\ other_currency = <<>>

\* C9: in merge mode the pending list holds every foreign row of the file
\* that is no currency conversion before the first row is transformed, so the
\* first conversion row of a (Date, Time) adopts the first such foreign row of
\* the file whether it stands before or after the conversion row.
C9_PendingFilledFirst ==
  (merge_payee /\ RowsTaken) =>
    /\ cur_record = 0 =>
         /\ Len(other_currency) = Cardinality(PendingPositions)
         /\ \A n \in 1..Len(other_currency) :
              other_currency[n] = DataRows[Nth(PendingPositions, n)]
    /\ \A j \in 1..Len(statement_lines) :
         LET r == this_currency[j]
         IN (IsConversion(r) /\ ConversionRank(j) = 1 /\ PendingFor(r) # {})
            => /\ statement_lines[j].payee = NameOf(DataRows[Nth(PendingFor(r), 1)])
               /\ statement_lines[j].memo = TypeOf(DataRows[Nth(PendingFor(r), 1)])
C9_Witness ==
  /\ merge_payee
  /\ Len(statement_lines) >= 1
  /\ Len(DataRows) >= 2
  /\ DataRows[1] = UsdConversion
  /\ DataRows[2] = EurShop
  /\ statement_lines[1].payee = "Shop"

\* C10: on the same file and configuration the merge run and the default
\* run end the same way with as many lines, pairwise equal in date, amount
\* and id; payee or memo differ only on lines whose row is a currency
\* conversion.
C10_MergeRefinesDefault ==
  (merge_payee /\ first_pc # "none") =>
    /\ Len(statement_lines) <= Len(first_lines)
    /\ \A j \in 1..Len(statement_lines) :
         /\ statement_lines[j].date = first_lines[j].date
         /\ statement_lines[j].amount = first_lines[j].amount
         /\ statement_lines[j].id = first_lines[j].id
         /\ (\/ statement_lines[j].payee # first_lines[j].payee
             \/ statement_lines[j].memo # first_lines[j].memo)
            => IsConversion(this_currency[j])
    /\ Finished =>
         /\ pc = first_pc
         /\ error = first_error
         /\ Len(statement_lines) = Len(first_lines)
C10_Witness ==
  /\ merge_payee
  /\ pc = "done"
  /\ first_pc = "done"
  /\ Len(statement_lines) = 2
  /\ ~IsConversion(this_currency[1])
  /\ PendingFor(this_currency[1]) # {}
  /\ statement_lines[2].payee # first_lines[2].payee

====
